---------------------------- MODULE Spec2Model ----------------------------
(***************************************************************************)
(* Model of the interview backend: the in-memory session store             *)
(* (services/sessionManager), the agent gateway (services/archestra) and   *)
(* the four request handlers of routes/interview.ts.                       *)
(*                                                                         *)
(* A request handler is an async function: it runs to completion between   *)
(* two awaits (Node's single thread), so every handler is cut at its       *)
(* `await sendToAgent(...)` lines and each piece is one atomic action.     *)
(* Several requests may be in flight at once, one per request slot.        *)
(*                                                                         *)
(* Optional values (a field that may be absent in the JavaScript object)   *)
(* are sequences of length 0 or 1.  Texts (transcripts, code) are          *)
(* sequences of one-character strings so that trim() and length are        *)
(* computed, not assumed.                                                  *)
(***************************************************************************)
EXTENDS Integers, Sequences, FiniteSets, TLC

VARIABLES
    sessions,   \* the store: session id -> InterviewSession
    reqs,       \* request slot -> the handler invocation running in it
    agentOk,    \* session ids for which some agent call returned parsable JSON
    nreq,       \* number of requests received so far
    raw,        \* a text returned by an agent, as handed to parseAgentJSON
    result      \* the outcome of parseAgentJSON(raw), absent before the call

vars == <<sessions, reqs, agentOk, nreq, raw, result>>

---------------------------------------------------------------------------
\* Bounds of the model.

MaxSessions == 2
MaxQuestions == 5
MaxSlots == 2
MaxRequests == 3
MaxStoreQuestions == 2
MaxStoreSessions == 1

---------------------------------------------------------------------------
\* Values.

None == <<>>
Some(x) == <<x>>
IsSome(o) == Len(o) > 0
Get(o) == o[1]

Undefined == "undefined"
Difficulty == {"easy", "medium", "hard"}

\* a || b on values where only `undefined` is falsy among those modelled
OrElse(a, b) == IF a = Undefined THEN b ELSE a

getLowerDifficulty(current) ==
    IF current = "hard" THEN "medium"
    ELSE IF current = "medium" THEN "easy"
    ELSE "easy"

DefaultTotalVideoQuestions == 3

DefaultRole == "Senior Frontend Engineer"
DefaultCompany == "Nebula Systems"

\* ---- texts ----
Whitespace == {" ", "\n", "\t"}

RECURSIVE TrimStart(_)
TrimStart(s) ==
    IF s = <<>> THEN s
    ELSE IF Head(s) \in Whitespace THEN TrimStart(Tail(s))
    ELSE s

RECURSIVE TrimEnd(_)
TrimEnd(s) ==
    IF s = <<>> THEN s
    ELSE IF s[Len(s)] \in Whitespace THEN TrimEnd(SubSeq(s, 1, Len(s) - 1))
    ELSE s

Trim(s) == TrimEnd(TrimStart(s))

\* truthiness of a JavaScript string
Truthy(s) == s # <<>>

Placeholder ==
    <<"/", "/", " ", "W", "r", "i", "t", "e", " ", "y", "o", "u", "r", " ",
      "s", "o", "l", "u", "t", "i", "o", "n", " ", "h", "e", "r", "e">>

MinCodeLen == 10

isEmptyCode(code) ==
    \/ ~Truthy(code)
    \/ Len(Trim(code)) < MinCodeLen
    \/ Trim(code) = Placeholder

---------------------------------------------------------------------------
\* The session store (sessionManager).

NewSession(id, role, company) ==
    [ id                   |-> id,
      role                 |-> role,
      company              |-> company,
      currentDifficulty    |-> "medium",
      currentQuestionIndex |-> 0,
      totalVideoQuestions  |-> DefaultTotalVideoQuestions,
      questions            |-> <<>>,
      completedAt          |-> FALSE,
      analysis             |-> None ]

\* uuidv4(): an id no session of the store has
FreshId(ss) == CHOOSE id \in 1..(Cardinality(DOMAIN ss) + 1) : id \notin DOMAIN ss

\* a createSession that always takes the id 1, replacing a session stored under it
createSessionSameId(ss, role, company) ==
    (1 :> NewSession(1, role, company)) @@ ss

createSession(ss, role, company) ==
    ss @@ (FreshId(ss) :> NewSession(FreshId(ss), role, company))

getSession(ss, sessionId) ==
    IF sessionId \in DOMAIN ss THEN Some(ss[sessionId]) ELSE None

\* questions.find(q => q.id === questionId): the index of the first match, 0 if none
RECURSIVE FindFrom(_, _, _)
FindFrom(qs, questionId, i) ==
    IF i > Len(qs) THEN 0
    ELSE IF qs[i].id = questionId THEN i
    ELSE FindFrom(qs, questionId, i + 1)

\* a lookup that falls back to the last question when no id matches
FindQuestionOrLast(qs, questionId) ==
    IF FindFrom(qs, questionId, 1) = 0 THEN Len(qs) ELSE FindFrom(qs, questionId, 1)

FindQuestion(qs, questionId) == FindFrom(qs, questionId, 1)

\* a question as handed to addQuestion (Omit<QuestionRecord, 'id'>)
NewQuestion(type, text, difficulty) ==
    [ type |-> type, text |-> text, difficulty |-> difficulty ]

QuestionRecord(id, q) ==
    [ id         |-> id,
      type       |-> q.type,
      text       |-> q.text,
      difficulty |-> q.difficulty,
      answer     |-> None,
      skipped    |-> None,
      evaluation |-> None,
      codeReview |-> None ]

\* the record addQuestion returns
AddedRecord(ss, sessionId, q) ==
    QuestionRecord(Len(ss[sessionId].questions) + 1, q)

addQuestion(ss, sessionId, q) ==
    [ss EXCEPT ![sessionId] =
        [@ EXCEPT !.questions = Append(@, AddedRecord(ss, sessionId, q)),
                  !.currentQuestionIndex = Len(ss[sessionId].questions) + 1]]

\* recordAnswer where the write reaches every session that holds the question id
recordAnswerEverySession(ss, sessionId, questionId, answer, skipped) ==
    [s \in DOMAIN ss |->
        LET i == FindQuestion(ss[s].questions, questionId)
        IN  IF i = 0 THEN ss[s]
            ELSE [ss[s] EXCEPT !.questions[i] =
                    [@ EXCEPT !.answer = Some(answer), !.skipped = Some(skipped)]]]

recordAnswer(ss, sessionId, questionId, answer, skipped) ==
    LET i == FindQuestion(ss[sessionId].questions, questionId)
    IN  [ss EXCEPT ![sessionId].questions[i] =
            [@ EXCEPT !.answer = Some(answer), !.skipped = Some(skipped)]]

recordEvaluationNoDifficulty(ss, sessionId, questionId, evaluation) ==
    LET i == FindQuestion(ss[sessionId].questions, questionId)
    IN  [ss EXCEPT ![sessionId].questions[i].evaluation = evaluation]

\* evaluation is an optional value: recordEvaluation(..., undefined) is None
recordEvaluation(ss, sessionId, questionId, evaluation) ==
    LET i == FindQuestion(ss[sessionId].questions, questionId)
    IN  [ss EXCEPT ![sessionId] =
            [@ EXCEPT !.questions[i].evaluation = evaluation,
                      !.currentDifficulty =
                          IF IsSome(evaluation)
                          THEN Get(evaluation).nextDifficulty
                          ELSE @]]

recordCodeReview(ss, sessionId, questionId, review) ==
    LET i == FindQuestion(ss[sessionId].questions, questionId)
    IN  [ss EXCEPT ![sessionId].questions[i].codeReview = review]

completeSession(ss, sessionId, analysis) ==
    [ss EXCEPT ![sessionId] =
        [@ EXCEPT !.completedAt = TRUE, !.analysis = Some(analysis)]]

\* updates: a Partial<InterviewSession>, every field optional.  A question of
\* the payload carries id 0 when its id is missing (or 0, null): `q.id ||`.
SanitizeQuestions(qs) ==
    [i \in 1..Len(qs) |-> [qs[i] EXCEPT !.id = IF @ = 0 THEN i ELSE @]]

Merged(old, upd, field) == IF IsSome(upd[field]) THEN Get(upd[field]) ELSE old[field]

\* an updateSession without `updatedSession.id = session.id`
updateSessionPayloadId(ss, sessionId, updates) ==
    LET session == ss[sessionId]
        merged  ==
            [ id                   |-> Merged(session, updates, "id"),
              role                 |-> Merged(session, updates, "role"),
              company              |-> Merged(session, updates, "company"),
              currentDifficulty    |-> Merged(session, updates, "currentDifficulty"),
              currentQuestionIndex |-> Merged(session, updates, "currentQuestionIndex"),
              totalVideoQuestions  |-> Merged(session, updates, "totalVideoQuestions"),
              questions            |-> SanitizeQuestions(Merged(session, updates, "questions")),
              completedAt          |-> Merged(session, updates, "completedAt"),
              analysis             |-> Merged(session, updates, "analysis") ]
    IN  [ss EXCEPT ![sessionId] = merged]

updateSession(ss, sessionId, updates) ==
    LET session == ss[sessionId]
        merged  ==
            [ id                   |-> session.id,
              role                 |-> Merged(session, updates, "role"),
              company              |-> Merged(session, updates, "company"),
              currentDifficulty    |-> Merged(session, updates, "currentDifficulty"),
              currentQuestionIndex |-> Merged(session, updates, "currentQuestionIndex"),
              totalVideoQuestions  |-> Merged(session, updates, "totalVideoQuestions"),
              questions            |-> SanitizeQuestions(Merged(session, updates, "questions")),
              completedAt          |-> Merged(session, updates, "completedAt"),
              analysis             |-> Merged(session, updates, "analysis") ]
    IN  [ss EXCEPT ![sessionId] = merged]

---------------------------------------------------------------------------
\* The agent gateway (archestra) as the handlers see it.  sendToAgent either
\* throws (fetch rejects, non-2xx status, JSON-RPC error: "transport") or
\* returns a text; parseAgentJSON on that text either throws ("badjson") or
\* returns the parsed object ("ok").

AgentScores == {75, 150}

Outcomes(payloads) ==
    LET any == CHOOSE p \in payloads : TRUE
    IN  {[kind |-> "transport", json |-> any], [kind |-> "badjson", json |-> any]}
        \cup {[kind |-> "ok", json |-> p] : p \in payloads}

\* what a parsable interviewer reply may hold (a missing field is Undefined)
InterviewerPayloads ==
    { [type |-> "code", text |-> "agent question", difficulty |-> "easy"],
      [type |-> Undefined, text |-> "agent question", difficulty |-> Undefined] }

EvaluatorPayloads ==
    { [score |-> s, nextDifficulty |-> d, strengths |-> <<"clear">>,
       weaknesses |-> <<"shallow">>, brief |-> "agent evaluation"] :
        s \in AgentScores, d \in {"hard", Undefined} }

CodeReviewPayloads ==
    { [score |-> s, correctness |-> TRUE, timeComplexity |-> "O(n)",
       spaceComplexity |-> "O(n)", strengths |-> <<"clean">>, issues |-> <<>>,
       brief |-> "agent review"] : s \in AgentScores }

\* the analyst may leave totalTime out (an empty text) or write its own
AgentTotalTime == <<"9", " ", "m", "i", "n">>

AnalysisPayloads ==
    { [overallScore |-> s, recommendation |-> "Hire", summary |-> "agent analysis",
       totalTime |-> t,
       skillScores |-> [reactFundamentals |-> s, problemSolving |-> s,
                        technicalDepth |-> s, codeQuality |-> s,
                        conceptualClarity |-> s],
       feedback |-> <<>>] : s \in AgentScores, t \in {<<>>, AgentTotalTime} }

\* the outbound call a handler is waiting on
Call(agent, wants, difficulty) ==
    [agent |-> agent, wants |-> wants, difficulty |-> difficulty]

---------------------------------------------------------------------------
\* Hand-authored fallbacks of routes/interview.ts.

FallbackFirstQuestion ==
    [type |-> "video", text |-> "useState vs useReducer", difficulty |-> "medium"]

FallbackCodeQuestion(nextDifficulty) ==
    [type |-> "code", text |-> "useDebounce hook", difficulty |-> nextDifficulty]

\* fallbackQs: Math.random picks one of three
FallbackVideoTexts == {"Virtual DOM", "useEffect Cleanup", "React Keys"}

FallbackVideoQuestion(text, nextDifficulty) ==
    [type |-> "video", text |-> text, difficulty |-> nextDifficulty]

SkippedEvaluationLower(currentDifficulty) ==
    [ score |-> 0, nextDifficulty |-> getLowerDifficulty(currentDifficulty),
      strengths |-> <<>>, weaknesses |-> <<"Question skipped">>,
      brief |-> "Question skipped by candidate." ]

\* a skipped evaluation that lists no weakness
SkippedEvaluationNoWeakness(currentDifficulty) ==
    [ score |-> 0, nextDifficulty |-> currentDifficulty,
      strengths |-> <<>>, weaknesses |-> <<>>,
      brief |-> "Question skipped by candidate." ]

SkippedEvaluation(currentDifficulty) ==
    [ score |-> 0, nextDifficulty |-> currentDifficulty,
      strengths |-> <<>>, weaknesses |-> <<"Question skipped">>,
      brief |-> "Question skipped by candidate." ]

FallbackEvaluation(currentDifficulty) ==
    [ score |-> 0, nextDifficulty |-> currentDifficulty,
      strengths |-> <<>>, weaknesses |-> <<"AI evaluation unavailable">>,
      brief |-> "Evaluation could not be completed." ]

EmptyCodeReview ==
    [ score |-> 0, correctness |-> FALSE, timeComplexity |-> "N/A",
      spaceComplexity |-> "N/A", strengths |-> <<>>,
      issues |-> <<"No code was submitted">>,
      brief |-> "Candidate did not submit any code." ]

FallbackCodeReview ==
    [ score |-> 0, correctness |-> FALSE, timeComplexity |-> "N/A",
      spaceComplexity |-> "N/A", strengths |-> <<>>,
      issues |-> <<"AI code review unavailable">>,
      brief |-> "Code review could not be completed." ]

\* Math.round(num / den) for den > 0: floor(num/den + 1/2)
Round(num, den) == (2 * num + den) \div (2 * den)

RECURSIVE SumSeq(_)
SumSeq(s) == IF s = <<>> THEN 0 ELSE Head(s) + SumSeq(Tail(s))

\* questions.filter(q => q.evaluation).map(q => q.evaluation.score)
RECURSIVE EvaluatedScores(_)
EvaluatedScores(qs) ==
    IF qs = <<>> THEN <<>>
    ELSE (IF IsSome(Head(qs).evaluation) THEN <<Get(Head(qs).evaluation).score>> ELSE <<>>)
         \o EvaluatedScores(Tail(qs))

Tagged(type, texts) == [i \in 1..Len(texts) |-> [type |-> type, text |-> texts[i]]]

\* questions.flatMap(q => (q.evaluation?.[field] || []).map(s => ({type, text: s})))
RECURSIVE FeedbackOf(_, _, _)
FeedbackOf(qs, field, type) ==
    IF qs = <<>> THEN <<>>
    ELSE (IF IsSome(Head(qs).evaluation)
          THEN Tagged(type, Get(Head(qs).evaluation)[field])
          ELSE <<>>)
         \o FeedbackOf(Tail(qs), field, type)

AvgScore(qs) ==
    LET scores == EvaluatedScores(qs)
    IN  IF Len(scores) > 0 THEN Round(SumSeq(scores), Len(scores)) ELSE 0

\* questions.find(q => q.codeReview)?.codeReview?.score ?? 0
CodeScore(qs) ==
    LET reviewed == SelectSeq(qs, LAMBDA q : IsSome(q.codeReview))
    IN  IF reviewed = <<>> THEN 0 ELSE Get(reviewed[1].codeReview).score

Recommendation(avgScore) ==
    IF avgScore >= 80 THEN "Strong Hire"
    ELSE IF avgScore >= 65 THEN "Hire"
    ELSE IF avgScore >= 50 THEN "Maybe"
    ELSE "No Hire"

\* ---- elapsed time ----

Digits == <<"0", "1", "2", "3", "4", "5", "6", "7", "8", "9">>

\* Number.prototype.toString() of a natural number
RECURSIVE toString(_)
toString(n) ==
    IF n < 10 THEN <<Digits[n + 1]>>
    ELSE toString(n \div 10) \o <<Digits[(n % 10) + 1]>>

\* String.prototype.padStart(targetLength, padString) with a one-character pad
RECURSIVE padStart(_, _, _)
padStart(s, targetLength, pad) ==
    IF Len(s) >= targetLength THEN s ELSE padStart(<<pad>> \o s, targetLength, pad)

\* `${minutes}:${seconds.toString().padStart(2, '0')}` for durationMs >= 0
TotalTime(durationMs) ==
    LET minutes == durationMs \div 60000
        seconds == (durationMs % 60000) \div 1000
    IN  toString(minutes) \o <<":">> \o padStart(toString(seconds), 2, "0")

FallbackAnalysis(session, totalTime) ==
    LET avgScore  == AvgScore(session.questions)
        codeScore == CodeScore(session.questions)
    IN  [ overallScore   |-> Round(avgScore + codeScore, 2),
          recommendation |-> Recommendation(avgScore),
          summary        |-> "fallback analysis",
          totalTime      |-> totalTime,
          skillScores    |-> [reactFundamentals |-> avgScore, problemSolving |-> codeScore,
                              technicalDepth |-> avgScore, codeQuality |-> codeScore,
                              conceptualClarity |-> avgScore],
          feedback       |-> FeedbackOf(session.questions, "strengths", "strength")
                             \o FeedbackOf(session.questions, "weaknesses", "improvement") ]

---------------------------------------------------------------------------
\* Requests.  A slot holds the locals of one handler invocation; `resp` is the
\* response it sent.  A finished invocation (pc = "done") is visible for one
\* state and is gone with the next step of the server.  `before` is the
\* session as the handler found it on arrival (getSession at its entry).

NoResp ==
    [ status |-> 0, sessionId |-> 0, question |-> None, evaluation |-> None,
      nextQuestion |-> None, isLastVideoQuestion |-> FALSE, currentQuestion |-> 0,
      totalQuestions |-> 0, review |-> None, analysis |-> None ]

IdleReq ==
    [ op |-> "idle", pc |-> "idle", sid |-> 0, qid |-> 0, text |-> <<>>,
      skipped |-> FALSE, nextDifficulty |-> Undefined, evaluation |-> None,
      evalFrom |-> "none", completedQuestions |-> 0, isLastVideoQ |-> FALSE,
      totalTime |-> <<>>, call |-> None, ncalls |-> 0, resp |-> NoResp,
      before |-> None ]

Slots == 1..MaxSlots

InFlight(q) == q.pc \notin {"idle", "done"}

Cleared(rs) == [r \in Slots |-> IF rs[r].pc = "done" THEN IdleReq ELSE rs[r]]

\* a new invocation takes the first slot that is not in flight
CanBegin(r) ==
    /\ nreq < MaxRequests
    /\ nreq' = nreq + 1
    /\ UNCHANGED <<raw, result>>
    /\ ~InFlight(reqs[r])
    /\ \A r2 \in 1..(r - 1) : InFlight(reqs[r2])

ErrorResp(status) == [NoResp EXCEPT !.status = status]

Failed(q, status) ==
    [q EXCEPT !.pc = "done", !.call = None, !.resp = ErrorResp(status)]

\* session.totalVideoQuestions where the +1 for the coding question is dropped
TotalQuestionsVideoOnly(session) == session.totalVideoQuestions

\* totalQuestions of a response: session.totalVideoQuestions + 1
TotalQuestions(session) == session.totalVideoQuestions + 1

\* the view of a stored question that a response carries
QuestionView(q) ==
    [id |-> q.id, type |-> q.type, text |-> q.text, difficulty |-> q.difficulty]

\* ---- request inputs ----
\* 0 is a field missing from the body; UnknownSession is an id never created.
UnknownSession == MaxSessions + 1

\* <<sessionId, questionId>>: every question of every session
ValidTargets(ss) ==
    UNION { { <<sid, qid>> : qid \in 1..Len(ss[sid].questions) } : sid \in DOMAIN ss }

\* one body for each way of naming no question
BadTargets(ss) ==
    { <<0, 1>>, <<UnknownSession, 1>> }
    \cup UNION { { <<sid, 0>>, <<sid, Len(ss[sid].questions) + 1>> } : sid \in DOMAIN ss }

SessionTargets(ss) == DOMAIN ss \cup {0, UnknownSession}

Transcript == <<"a", "n", "s">>

\* <<transcript, skipped>> of an answer: spoken, silent, skipped
AnswerBodies == { <<Transcript, FALSE>>, << <<>>, FALSE>>, << <<>>, TRUE>> }

ShortCode == <<" ", "r", "e", "t", "u", "r", "n", " ", "1", ";", "\n">>
PlaceholderCode == Placeholder \o <<"\n">>
RealCode == <<"r", "e", "t", "u", "r", "n", " ", "a", "+", "b">>
Codes == { <<>>, ShortCode, PlaceholderCode, RealCode }

\* <<sessionId, questionId, transcript, skipped>>
AnswerInputs(ss) ==
    { <<t[1], t[2], b[1], b[2]>> : t \in ValidTargets(ss), b \in AnswerBodies }
    \cup { <<t[1], t[2], Transcript, FALSE>> : t \in BadTargets(ss) }

\* <<sessionId, questionId, code>>
CodeInputs(ss) ==
    { <<t[1], t[2], c>> : t \in ValidTargets(ss), c \in Codes }
    \cup { <<t[1], t[2], RealCode>> : t \in BadTargets(ss) }

\* answer requests of a session that will still append a question
PendingAppends(sid) ==
    Cardinality({r \in Slots : reqs[r].op = "answer" /\ InFlight(reqs[r]) /\ reqs[r].sid = sid})

---------------------------------------------------------------------------
\* POST /start

StartBegin(r, role, company) ==
    /\ CanBegin(r)
    /\ Cardinality(DOMAIN sessions) < MaxSessions
    /\ sessions' = createSession(sessions, role, company)
    /\ reqs' = [Cleared(reqs) EXCEPT ![r] =
                  [IdleReq EXCEPT !.op = "start", !.pc = "awaitInterviewer",
                                  !.sid = FreshId(sessions),
                                  !.call = Some(Call("interviewer", "video", "medium")),
                                  !.ncalls = 1]]
    /\ UNCHANGED agentOk

StartReply(r, o) ==
    LET q        == reqs[r]
        question == IF o.kind = "ok" THEN o.json ELSE FallbackFirstQuestion
        toStore  == NewQuestion(OrElse(question.type, "video"), question.text,
                                OrElse(question.difficulty, "medium"))
        stored   == AddedRecord(sessions, q.sid, toStore)
    IN  /\ q.op = "start" /\ q.pc = "awaitInterviewer"
        /\ UNCHANGED <<nreq, raw, result>>
        /\ IF o.kind = "transport"
           THEN /\ reqs' = [Cleared(reqs) EXCEPT ![r] = Failed(q, 500)]
                /\ UNCHANGED <<sessions, agentOk>>
           ELSE /\ sessions' = addQuestion(sessions, q.sid, toStore)
                /\ agentOk' = IF o.kind = "ok" THEN agentOk \cup {q.sid} ELSE agentOk
                /\ reqs' = [Cleared(reqs) EXCEPT ![r] =
                      [q EXCEPT !.pc = "done", !.call = None,
                                !.resp = [NoResp EXCEPT
                                    !.status = 200,
                                    !.sessionId = q.sid,
                                    !.question = Some(QuestionView(stored)),
                                    !.totalQuestions = TotalQuestions(sessions[q.sid]),
                                    !.currentQuestion = 1]]]

---------------------------------------------------------------------------
\* POST /answer

\* questions.filter(q => q.type === 'video' && (q.answer || q.skipped)).length
CompletedQuestions(qs) ==
    Len(SelectSeq(qs, LAMBDA q :
        /\ q.type = "video"
        /\ \/ (IsSome(q.answer) /\ Truthy(Get(q.answer)))
           \/ q.skipped = Some(TRUE)))

\* step 3 of the handler up to its await: count, decide, call the interviewer
AskNext(q, ss, nextDifficulty) ==
    LET session   == ss[q.sid]
        completed == CompletedQuestions(session.questions)
        isLast    == completed >= session.totalVideoQuestions
    IN  [q EXCEPT !.pc = "awaitNext",
                  !.nextDifficulty = nextDifficulty,
                  !.completedQuestions = completed,
                  !.isLastVideoQ = isLast,
                  !.call = Some(Call("interviewer",
                                     IF isLast THEN "code" ELSE "video",
                                     nextDifficulty)),
                  !.ncalls = @ + 1]

AnswerBegin(r, sid, qid, transcript, skipped) ==
    LET q0 == [IdleReq EXCEPT !.op = "answer", !.sid = sid, !.qid = qid,
                              !.text = transcript, !.skipped = skipped,
                              !.before = getSession(sessions, sid)]
    IN  /\ CanBegin(r)
        /\ UNCHANGED agentOk
        /\ IF sid = 0 \/ qid = 0
           THEN /\ reqs' = [Cleared(reqs) EXCEPT ![r] = Failed(q0, 400)]
                /\ UNCHANGED sessions
           ELSE IF getSession(sessions, sid) = None
           THEN /\ reqs' = [Cleared(reqs) EXCEPT ![r] = Failed(q0, 404)]
                /\ UNCHANGED sessions
           ELSE IF FindQuestion(sessions[sid].questions, qid) = 0
           THEN /\ reqs' = [Cleared(reqs) EXCEPT ![r] = Failed(q0, 404)]
                /\ UNCHANGED sessions
           ELSE /\ Len(sessions[sid].questions) + PendingAppends(sid) < MaxQuestions
                /\ IF skipped
                   THEN LET ss1 == recordAnswer(sessions, sid, qid, <<>>, TRUE)
                            ev  == SkippedEvaluation(sessions[sid].currentDifficulty)
                        IN  /\ sessions' = ss1
                            /\ reqs' = [Cleared(reqs) EXCEPT ![r] =
                                  AskNext([q0 EXCEPT !.evaluation = Some(ev),
                                                     !.evalFrom = "skipped"],
                                          ss1, sessions[sid].currentDifficulty)]
                   ELSE /\ sessions' = recordAnswer(sessions, sid, qid, transcript, FALSE)
                        /\ reqs' = [Cleared(reqs) EXCEPT ![r] =
                              [q0 EXCEPT !.pc = "awaitEval",
                                         !.nextDifficulty = sessions[sid].currentDifficulty,
                                         !.call = Some(Call("evaluator", "evaluation", Undefined)),
                                         !.ncalls = 1]]

AnswerEvalReply(r, o) ==
    LET q   == reqs[r]
        ev  == IF o.kind = "ok" THEN o.json
               ELSE FallbackEvaluation(sessions[q.sid].currentDifficulty)
        ss1 == recordEvaluation(sessions, q.sid, q.qid, Some(ev))
    IN  /\ q.op = "answer" /\ q.pc = "awaitEval"
        /\ UNCHANGED <<nreq, raw, result>>
        /\ IF o.kind = "transport"
           THEN /\ reqs' = [Cleared(reqs) EXCEPT ![r] = Failed(q, 500)]
                /\ UNCHANGED <<sessions, agentOk>>
           ELSE /\ sessions' = ss1
                /\ agentOk' = IF o.kind = "ok" THEN agentOk \cup {q.sid} ELSE agentOk
                /\ reqs' = [Cleared(reqs) EXCEPT ![r] =
                      AskNext([q EXCEPT !.evaluation = Some(ev),
                                        !.evalFrom = IF o.kind = "ok" THEN "agent" ELSE "fallback"],
                              ss1, ev.nextDifficulty)]

AnswerNextReply(r, o, fallbackText) ==
    LET q       == reqs[r]
        session == sessions[q.sid]
        nextQ   == IF o.kind = "ok" THEN o.json
                   ELSE IF q.isLastVideoQ THEN FallbackCodeQuestion(q.nextDifficulty)
                   ELSE FallbackVideoQuestion(fallbackText, q.nextDifficulty)
        toStore == NewQuestion(IF q.isLastVideoQ THEN "code" ELSE OrElse(nextQ.type, "video"),
                               nextQ.text,
                               OrElse(nextQ.difficulty, q.nextDifficulty))
        stored  == AddedRecord(sessions, q.sid, toStore)
        ev      == Get(q.evaluation)
    IN  /\ q.op = "answer" /\ q.pc = "awaitNext"
        /\ UNCHANGED <<nreq, raw, result>>
        /\ IF o.kind = "transport"
           THEN /\ reqs' = [Cleared(reqs) EXCEPT ![r] = Failed(q, 500)]
                /\ UNCHANGED <<sessions, agentOk>>
           ELSE /\ sessions' = addQuestion(sessions, q.sid, toStore)
                /\ agentOk' = IF o.kind = "ok" THEN agentOk \cup {q.sid} ELSE agentOk
                /\ reqs' = [Cleared(reqs) EXCEPT ![r] =
                      [q EXCEPT !.pc = "done", !.call = None,
                                !.resp = [NoResp EXCEPT
                                    !.status = 200,
                                    !.evaluation = Some(ev),
                                    !.nextQuestion = Some(QuestionView(stored)),
                                    !.isLastVideoQuestion = q.isLastVideoQ,
                                    !.currentQuestion = Len(session.questions) + 1,
                                    !.totalQuestions = TotalQuestions(session)]]]

---------------------------------------------------------------------------
\* POST /submit-code

CodeBegin(r, sid, qid, code) ==
    LET q0 == [IdleReq EXCEPT !.op = "code", !.sid = sid, !.qid = qid, !.text = code,
                              !.before = getSession(sessions, sid)]
    IN  /\ CanBegin(r)
        /\ UNCHANGED agentOk
        /\ IF sid = 0 \/ qid = 0 \/ ~Truthy(code)
           THEN /\ reqs' = [Cleared(reqs) EXCEPT ![r] = Failed(q0, 400)]
                /\ UNCHANGED sessions
           ELSE IF getSession(sessions, sid) = None
           THEN /\ reqs' = [Cleared(reqs) EXCEPT ![r] = Failed(q0, 404)]
                /\ UNCHANGED sessions
           ELSE IF FindQuestion(sessions[sid].questions, qid) = 0
           THEN /\ reqs' = [Cleared(reqs) EXCEPT ![r] = Failed(q0, 404)]
                /\ UNCHANGED sessions
           ELSE /\ sessions' = recordAnswer(sessions, sid, qid, code, FALSE)
                /\ reqs' = [Cleared(reqs) EXCEPT ![r] =
                      [q0 EXCEPT !.pc = "awaitReview",
                                 !.call = Some(Call("codeReviewer", "review", Undefined)),
                                 !.ncalls = 1]]

CodeReply(r, o) ==
    LET q      == reqs[r]
        review == IF isEmptyCode(q.text) THEN EmptyCodeReview
                  ELSE IF o.kind = "ok" THEN o.json
                  ELSE FallbackCodeReview
    IN  /\ q.op = "code" /\ q.pc = "awaitReview"
        /\ UNCHANGED <<nreq, raw, result>>
        /\ IF o.kind = "transport"
           THEN /\ reqs' = [Cleared(reqs) EXCEPT ![r] = Failed(q, 500)]
                /\ UNCHANGED <<sessions, agentOk>>
           ELSE /\ sessions' = recordCodeReview(sessions, q.sid, q.qid, Some(review))
                /\ agentOk' = IF o.kind = "ok" THEN agentOk \cup {q.sid} ELSE agentOk
                /\ reqs' = [Cleared(reqs) EXCEPT ![r] =
                      [q EXCEPT !.pc = "done", !.call = None,
                                !.resp = [NoResp EXCEPT !.status = 200,
                                                        !.review = Some(review)]]]

---------------------------------------------------------------------------
\* POST /complete

\* elapsed milliseconds between startedAt and the arrival of /complete
Durations == {5999, 754000}

\* if (!analysis.totalTime) analysis.totalTime = totalTime
EnsureTotalTime(analysis, totalTime) ==
    IF Truthy(analysis.totalTime) THEN analysis
    ELSE [analysis EXCEPT !.totalTime = totalTime]

CompleteBegin(r, sid, durationMs) ==
    LET q0 == [IdleReq EXCEPT !.op = "complete", !.sid = sid,
                              !.before = getSession(sessions, sid)]
    IN  /\ CanBegin(r)
        /\ UNCHANGED <<sessions, agentOk>>
        /\ IF sid = 0
           THEN reqs' = [Cleared(reqs) EXCEPT ![r] = Failed(q0, 400)]
           ELSE IF getSession(sessions, sid) = None
           THEN reqs' = [Cleared(reqs) EXCEPT ![r] = Failed(q0, 404)]
           ELSE reqs' = [Cleared(reqs) EXCEPT ![r] =
                    [q0 EXCEPT !.pc = "awaitAnalyst",
                               !.totalTime = TotalTime(durationMs),
                               !.call = Some(Call("analyst", "analysis", Undefined)),
                               !.ncalls = 1]]

CompleteReply(r, o) ==
    LET q        == reqs[r]
        parsed   == IF o.kind = "ok" THEN o.json
                    ELSE FallbackAnalysis(sessions[q.sid], q.totalTime)
        analysis == EnsureTotalTime(parsed, q.totalTime)
    IN  /\ q.op = "complete" /\ q.pc = "awaitAnalyst"
        /\ UNCHANGED <<nreq, raw, result>>
        /\ IF o.kind = "transport"
           THEN /\ reqs' = [Cleared(reqs) EXCEPT ![r] = Failed(q, 500)]
                /\ UNCHANGED <<sessions, agentOk>>
           ELSE /\ sessions' = completeSession(sessions, q.sid, analysis)
                /\ agentOk' = IF o.kind = "ok" THEN agentOk \cup {q.sid} ELSE agentOk
                /\ reqs' = [Cleared(reqs) EXCEPT ![r] =
                      [q EXCEPT !.pc = "done", !.call = None,
                                !.resp = [NoResp EXCEPT !.status = 200,
                                                        !.analysis = Some(analysis)]]]

---------------------------------------------------------------------------
\* The server: any number of requests, interleaved at their awaits.

Init ==
    /\ sessions = << >>
    /\ reqs = [r \in Slots |-> IdleReq]
    /\ agentOk = {}
    /\ nreq = 0
    /\ raw = <<>>
    /\ result = None

Next ==
    \/ \E r \in Slots : StartBegin(r, DefaultRole, DefaultCompany)
    \/ \E r \in Slots, o \in Outcomes(InterviewerPayloads) : StartReply(r, o)
    \/ \E r \in Slots, in \in AnswerInputs(sessions) :
         AnswerBegin(r, in[1], in[2], in[3], in[4])
    \/ \E r \in Slots, o \in Outcomes(EvaluatorPayloads) : AnswerEvalReply(r, o)
    \/ \E r \in Slots, o \in Outcomes(InterviewerPayloads), t \in FallbackVideoTexts :
         AnswerNextReply(r, o, t)
    \/ \E r \in Slots, in \in CodeInputs(sessions) : CodeBegin(r, in[1], in[2], in[3])
    \/ \E r \in Slots, o \in Outcomes(CodeReviewPayloads) : CodeReply(r, o)
    \/ \E r \in Slots, sid \in SessionTargets(sessions), d \in Durations :
         CompleteBegin(r, sid, d)
    \/ \E r \in Slots, o \in Outcomes(AnalysisPayloads) : CompleteReply(r, o)

Spec == Init /\ [][Next]_vars

---------------------------------------------------------------------------
\* The session store on its own: every exported operation of sessionManager,
\* called in any order with any argument.  A call that throws (unknown
\* session or question) changes nothing and is no step.

Roles == {DefaultRole, "Backend Engineer"}
Companies == {DefaultCompany, "Acme"}

StoreQuestions ==
    { NewQuestion("video", "store question", "medium"),
      NewQuestion("code", "store challenge", "hard") }

StoreAnswers == { <<Transcript, FALSE>> }

\* undefined, or an evaluation
StoreEvaluations ==
    { None,
      Some([score |-> 75, nextDifficulty |-> "hard", strengths |-> <<"clear">>,
            weaknesses |-> <<>>, brief |-> "agent evaluation"]) }

StoreReviews == { Some(EmptyCodeReview) }

StoreAnalyses ==
    { FallbackAnalysis(NewSession(0, DefaultRole, DefaultCompany), TotalTime(5999)) }

\* a session-shaped payload of an agent: no field is required
NoUpdates ==
    [ id |-> None, role |-> None, company |-> None, currentDifficulty |-> None,
      currentQuestionIndex |-> None, totalVideoQuestions |-> None,
      questions |-> None, completedAt |-> None, analysis |-> None ]

\* the ids a payload's question may carry (0: none)
PayloadIds == 0..(MaxStoreQuestions + 1)

PayloadQuestions ==
    UNION { [1..n -> { QuestionRecord(id, NewQuestion("video", "store question", "medium")) :
                          id \in PayloadIds }] : n \in 0..MaxStoreQuestions }

\* the role of a payload that describes another session
PayloadRole == "Staff Engineer"

\* the fields are merged one by one, so payloads of one field generate them all
Updates ==
    { [NoUpdates EXCEPT !.id = Some(UnknownSession)],
      [NoUpdates EXCEPT !.id = Some(UnknownSession), !.role = Some(PayloadRole)] }
    \cup { [NoUpdates EXCEPT !.role = Some(x)] : x \in Roles }
    \cup { [NoUpdates EXCEPT !.company = Some(x)] : x \in Companies }
    \cup { [NoUpdates EXCEPT !.currentDifficulty = Some("easy")] }
    \cup { [NoUpdates EXCEPT !.currentQuestionIndex = Some(0)] }
    \cup { [NoUpdates EXCEPT !.questions = Some(x)] : x \in PayloadQuestions }

StoreFrame == UNCHANGED <<reqs, agentOk, nreq, raw, result>>

StoreCreate(role, company) ==
    /\ Cardinality(DOMAIN sessions) < MaxStoreSessions
    /\ sessions' = createSession(sessions, role, company)
    /\ StoreFrame

StoreAddQuestion(sid, q) ==
    /\ Len(sessions[sid].questions) < MaxStoreQuestions
    /\ sessions' = addQuestion(sessions, sid, q)
    /\ StoreFrame

StoreRecordAnswer(sid, qid, answer, skipped) ==
    /\ FindQuestion(sessions[sid].questions, qid) # 0
    /\ sessions' = recordAnswer(sessions, sid, qid, answer, skipped)
    /\ StoreFrame

StoreRecordEvaluation(sid, qid, evaluation) ==
    /\ FindQuestion(sessions[sid].questions, qid) # 0
    /\ sessions' = recordEvaluation(sessions, sid, qid, evaluation)
    /\ StoreFrame

StoreRecordCodeReview(sid, qid, review) ==
    /\ FindQuestion(sessions[sid].questions, qid) # 0
    /\ sessions' = recordCodeReview(sessions, sid, qid, review)
    /\ StoreFrame

StoreComplete(sid, analysis) ==
    /\ sessions' = completeSession(sessions, sid, analysis)
    /\ StoreFrame

StoreUpdate(sid, updates) ==
    /\ sessions' = updateSession(sessions, sid, updates)
    /\ StoreFrame

StoreNext ==
    \/ \E role \in Roles, company \in Companies : StoreCreate(role, company)
    \/ \E sid \in DOMAIN sessions, q \in StoreQuestions : StoreAddQuestion(sid, q)
    \/ \E sid \in DOMAIN sessions, qid \in PayloadIds, a \in StoreAnswers :
         StoreRecordAnswer(sid, qid, a[1], a[2])
    \/ \E sid \in DOMAIN sessions, qid \in PayloadIds, e \in StoreEvaluations :
         StoreRecordEvaluation(sid, qid, e)
    \/ \E sid \in DOMAIN sessions, qid \in PayloadIds, v \in StoreReviews :
         StoreRecordCodeReview(sid, qid, v)
    \/ \E sid \in DOMAIN sessions, a \in StoreAnalyses : StoreComplete(sid, a)
    \/ \E sid \in DOMAIN sessions, u \in Updates : StoreUpdate(sid, u)

SpecStore == Init /\ [][StoreNext]_vars

---------------------------------------------------------------------------
\* Properties.

\* the request in slot r took the step (a finished request that is merely
\* forgotten does not count)
Acted(r) == reqs'[r] # reqs[r] /\ reqs'[r].op # "idle"

Began(r) == Acted(r) /\ ~InFlight(reqs[r])

\* C1: in every session of the store, the question at position i has id i
\* (questions[i].id == i+1 counting from 0), whatever store operations ran,
\* updateSession with arbitrary payload ids included.
C1_DenseQuestionIds ==
    \A sid \in DOMAIN sessions :
        \A i \in 1..Len(sessions[sid].questions) : sessions[sid].questions[i].id = i

\* C2: a request on valid ids all of whose agent calls failed, in a session no
\* agent call of which ever succeeded, is still answered 200; when it is
\* complete, the session is completed with an overallScore in 0..100.
C2_AgentFailureStillCompletes ==
    \A r \in Slots :
        LET q == reqs[r]
        IN  (q.pc = "done" /\ q.ncalls > 0 /\ q.sid \notin agentOk)
            => /\ q.resp.status = 200
               /\ q.op = "complete" =>
                    /\ sessions[q.sid].completedAt
                    /\ IsSome(sessions[q.sid].analysis)
                    /\ Get(sessions[q.sid].analysis).overallScore \in 0..100

\* C3: start always answers 200 with the one question (id 1) it stored, and a
\* session without questions exists only while its start request is running.
C3_StartReturnsFirstQuestion ==
    /\ \A r \in Slots :
        LET q == reqs[r]
        IN  (q.op = "start" /\ q.pc = "done")
            => /\ q.resp.status = 200
               /\ Len(sessions[q.sid].questions) = 1
               /\ sessions[q.sid].questions[1].id = 1
               /\ q.resp.question = Some(QuestionView(sessions[q.sid].questions[1]))
    /\ \A sid \in DOMAIN sessions :
        sessions[sid].questions = <<>>
            => \E r \in Slots : /\ reqs[r].op = "start"
                                /\ reqs[r].pc = "awaitInterviewer"
                                /\ reqs[r].sid = sid

\* C4: two submit_answer calls on one session never both hold the same
\* completed-question count while neither has appended its next question, and
\* what a call answers rests on the session as it is when the call returns, as
\* in a serial execution: its count and its difficulty are the session's.
C4_AnswersAreSerial ==
    /\ \A r1, r2 \in Slots :
        (/\ r1 # r2
         /\ reqs[r1].op = "answer" /\ reqs[r1].pc = "awaitNext"
         /\ reqs[r2].op = "answer" /\ reqs[r2].pc = "awaitNext"
         /\ reqs[r1].sid = reqs[r2].sid)
        => reqs[r1].completedQuestions # reqs[r2].completedQuestions
    /\ \A r \in Slots :
        LET q == reqs[r]
        IN  (q.op = "answer" /\ q.pc = "done" /\ q.resp.status = 200)
            => /\ q.completedQuestions = CompletedQuestions(sessions[q.sid].questions)
               /\ q.nextDifficulty = sessions[q.sid].currentDifficulty
               /\ Get(q.resp.nextQuestion).id = Len(sessions[q.sid].questions)

\* C5: a store operation changes a session's currentDifficulty only if it is
\* recordEvaluation with an evaluation, and then to its nextDifficulty.
C5_DifficultyOnlyByEvaluation ==
    [][ \A sid \in DOMAIN sessions :
          sessions'[sid].currentDifficulty # sessions[sid].currentDifficulty
          => \E qid \in PayloadIds, e \in StoreEvaluations :
                /\ IsSome(e)
                /\ FindQuestion(sessions[sid].questions, qid) # 0
                /\ sessions' = recordEvaluation(sessions, sid, qid, e)
                /\ sessions'[sid].currentDifficulty = Get(e).nextDifficulty ]_vars

\* C6: no step of a skipped submit_answer changes a currentDifficulty; the
\* evaluation it synthesizes carries the difficulty the session had when the
\* call arrived, and that evaluation is the one returned.
C6_SkipKeepsDifficulty ==
    [][ \A r \in Slots :
          (Acted(r) /\ reqs'[r].op = "answer" /\ reqs'[r].skipped)
          => /\ \A sid \in DOMAIN sessions :
                  sessions'[sid].currentDifficulty = sessions[sid].currentDifficulty
             /\ (Began(r) /\ reqs'[r].pc = "awaitNext")
                  => /\ Get(reqs'[r].evaluation).nextDifficulty
                          = sessions[reqs'[r].sid].currentDifficulty
                     /\ reqs'[r].nextDifficulty = sessions[reqs'[r].sid].currentDifficulty
             /\ (reqs'[r].pc = "done" /\ reqs'[r].resp.status = 200)
                  => /\ reqs'[r].resp.evaluation = reqs[r].evaluation
                     /\ Get(reqs[r].evaluation).nextDifficulty = reqs[r].nextDifficulty
      ]_vars

\* a skipped answer was served in a session whose difficulty had moved to hard
C6_Witness ==
    \E r \in Slots :
        /\ reqs[r].op = "answer" /\ reqs[r].skipped
        /\ reqs[r].pc = "done" /\ reqs[r].resp.status = 200
        /\ sessions[reqs[r].sid].currentDifficulty = "hard"
        /\ Get(reqs[r].resp.evaluation).nextDifficulty = "hard"

\* C7: the step of a submit_answer that records the evaluator's evaluation
\* sets currentDifficulty to its nextDifficulty and asks the interviewer for
\* the next question at that difficulty; its other steps leave currentDifficulty
\* alone.
C7_EvaluationSetsDifficultyOnce ==
    [][ \A r \in Slots :
          (Acted(r) /\ reqs'[r].op = "answer" /\ ~reqs'[r].skipped)
          => LET q   == reqs'[r]
                 sid == q.sid
             IN  IF reqs[r].pc = "awaitEval" /\ q.pc = "awaitNext" /\ q.evalFrom = "agent"
                 THEN /\ sessions'[sid].currentDifficulty = Get(q.evaluation).nextDifficulty
                      /\ sessions'[sid].questions[FindQuestion(sessions'[sid].questions, q.qid)].evaluation
                            = q.evaluation
                      /\ Get(q.call).agent = "interviewer"
                      /\ Get(q.call).difficulty = Get(q.evaluation).nextDifficulty
                 ELSE (reqs[r].pc # "awaitEval" /\ sid \in DOMAIN sessions)
                      => sessions'[sid].currentDifficulty = sessions[sid].currentDifficulty
      ]_vars

\* an evaluator's evaluation moved the session from medium to hard and the
\* next question is being requested at hard
C7_Witness ==
    \E r \in Slots :
        /\ reqs[r].op = "answer" /\ reqs[r].pc = "awaitNext" /\ reqs[r].evalFrom = "agent"
        /\ Get(reqs[r].evaluation).nextDifficulty = "hard"
        /\ sessions[reqs[r].sid].currentDifficulty = "hard"
        /\ Get(reqs[r].call).difficulty = "hard"

\* C8: every session's currentDifficulty is easy, medium or hard.
C8_DifficultyInRange ==
    \A sid \in DOMAIN sessions : sessions[sid].currentDifficulty \in Difficulty

\* C9: a submit_code on an existing question with placeholder or trivially
\* short code is answered with, and records, a review of score 0 and
\* correctness false.
C9_TrivialCodeScoresZero ==
    \A r \in Slots :
        LET q == reqs[r]
        IN  (/\ q.op = "code" /\ q.pc = "done"
             /\ Truthy(q.text) /\ isEmptyCode(q.text)
             /\ q.resp.status \notin {400, 404})
            => /\ q.resp.status = 200
               /\ Get(q.resp.review).score = 0
               /\ Get(q.resp.review).correctness = FALSE
               /\ sessions[q.sid].questions[FindQuestion(sessions[q.sid].questions, q.qid)].codeReview
                     = q.resp.review

\* C10: a submit_code with placeholder or trivially short code never issues an
\* agent call.
C10_NoAgentCallOnTrivialCode ==
    \A r \in Slots :
        (reqs[r].op = "code" /\ isEmptyCode(reqs[r].text))
        => reqs[r].ncalls = 0 /\ reqs[r].call = None

---------------------------------------------------------------------------
IsDigit(c) == \E i \in 1..Len(Digits) : Digits[i] = c

\* a text of the form M:SS: one or more digits, a colon, two digits for a
\* number of seconds in 00..59
IsMSS(t) ==
    /\ Len(t) >= 4
    /\ t[Len(t) - 2] = ":"
    /\ t[Len(t) - 1] \in {"0", "1", "2", "3", "4", "5"}
    /\ IsDigit(t[Len(t)])
    /\ \A i \in 1..(Len(t) - 3) : IsDigit(t[i])

\* C11: the analysis that complete returns, and stores, carries a totalTime of
\* the form M:SS with SS in 00..59; when the analyst's analysis has no
\* totalTime it is the one computed by the handler.
C11_TotalTimeIsMSS ==
    \A r \in Slots :
        LET q == reqs[r]
        IN  (q.op = "complete" /\ q.pc = "done" /\ q.resp.status = 200)
            => /\ IsMSS(Get(q.resp.analysis).totalTime)
               /\ IsMSS(q.totalTime)
               /\ sessions[q.sid].analysis = q.resp.analysis

\* C12: the analysis that complete returns, and stores, carries the totalTime
\* computed by the handler, whatever totalTime the analyst's analysis holds.
C12_LocalTotalTimeWins ==
    \A r \in Slots :
        LET q == reqs[r]
        IN  (q.op = "complete" /\ q.pc = "done" /\ q.resp.status = 200)
            => /\ Get(q.resp.analysis).totalTime = q.totalTime
               /\ Get(sessions[q.sid].analysis).totalTime = q.totalTime

\* C13: every response of start and of submit_answer that carries a body has
\* totalQuestions equal to the session's totalVideoQuestions + 1.
C13_TotalQuestionsIsVideoPlusOne ==
    \A r \in Slots :
        LET q == reqs[r]
        IN  (q.op \in {"start", "answer"} /\ q.pc = "done" /\ q.resp.status = 200)
            => q.resp.totalQuestions = sessions[q.sid].totalVideoQuestions + 1

\* a submit_answer was answered with totalQuestions 4 for a session of three
\* video questions
C13_Witness ==
    \E r \in Slots :
        /\ reqs[r].op = "answer" /\ reqs[r].pc = "done" /\ reqs[r].resp.status = 200
        /\ sessions[reqs[r].sid].totalVideoQuestions = 3
        /\ reqs[r].resp.totalQuestions = 4

\* C14: a successful start returns the only question of its session, the
\* question has id 1 and type video whatever type the interviewer's reply
\* names, and totalQuestions is 4.
C14_StartReturnsOneVideoQuestion ==
    \A r \in Slots :
        LET q == reqs[r]
        IN  (q.op = "start" /\ q.pc = "done" /\ q.resp.status = 200)
            => /\ Len(sessions[q.sid].questions) = 1
               /\ Get(q.resp.question).id = 1
               /\ Get(q.resp.question).type = "video"
               /\ sessions[q.sid].questions[1].type = "video"
               /\ q.resp.totalQuestions = 4

\* C15: a submit_answer with a non-empty transcript on a video question whose
\* evaluation the evaluator supplied returns isLastVideoQuestion = false and a
\* video nextQuestion while the answered-video count it brings about is below
\* 3, and isLastVideoQuestion = true and a code nextQuestion once it is 3.
C15_ThirdAnswerYieldsCodeQuestion ==
    \A r \in Slots :
        LET q == reqs[r]
        IN  (/\ q.op = "answer" /\ q.pc = "done" /\ q.resp.status = 200
             /\ ~q.skipped /\ Truthy(q.text) /\ q.evalFrom = "agent"
             /\ sessions[q.sid].questions[FindQuestion(sessions[q.sid].questions, q.qid)].type
                    = "video")
            => IF q.completedQuestions < 3
               THEN /\ ~q.resp.isLastVideoQuestion
                    /\ Get(q.resp.nextQuestion).type = "video"
               ELSE /\ q.resp.isLastVideoQuestion
                    /\ Get(q.resp.nextQuestion).type = "code"

C17_ReturnedEvaluationIsStored ==
    \A r \in Slots :
        LET q  == reqs[r]
            qs == sessions[q.sid].questions
        IN  (q.op = "answer" /\ q.pc = "done" /\ q.resp.status = 200)
            => /\ IsSome(qs[FindFrom(qs, q.qid, 1)].evaluation)
               /\ qs[FindFrom(qs, q.qid, 1)].evaluation = q.resp.evaluation

\* C18: submit_answer, submit_code and complete answer 400 when a required
\* field is missing and 404 when the session or the question is unknown, and
\* only then; the step that answers 400 or 404 is the request's first, leaves
\* the store as it was and has issued no agent call.
C18_BadRequestsChangeNothing ==
    [][ \A r \in Slots :
          (Began(r) /\ reqs'[r].op \in {"answer", "code", "complete"})
          => LET q       == reqs'[r]
                 status  == q.resp.status
                 missing == \/ q.sid = 0
                            \/ (q.op \in {"answer", "code"} /\ q.qid = 0)
                            \/ (q.op = "code" /\ q.text = <<>>)
                 unknown == \/ q.sid \notin DOMAIN sessions
                            \/ /\ q.op \in {"answer", "code"}
                               /\ FindFrom(sessions[q.sid].questions, q.qid, 1) = 0
             IN  /\ missing => status = 400
                 /\ (~missing /\ unknown) => status = 404
                 /\ (~missing /\ ~unknown) => (status \notin {400, 404} /\ q.ncalls = 1)
                 /\ status \in {400, 404}
                      => /\ sessions' = sessions
                         /\ q.pc = "done" /\ q.ncalls = 0 /\ q.call = None
      ]_vars

\* a submit_answer or submit_code naming a question its session does not hold
\* was answered 404
C18_Witness ==
    \E r \in Slots :
        /\ reqs[r].op \in {"answer", "code"} /\ reqs[r].pc = "done"
        /\ reqs[r].resp.status = 404
        /\ reqs[r].sid \in DOMAIN sessions
        /\ Len(sessions[reqs[r].sid].questions) > 0
        /\ reqs[r].qid > Len(sessions[reqs[r].sid].questions)

\* C19: once a session is completed, no step changes its completedAt or its
\* analysis, a second complete for the same session included.
C19_CompletedOnce ==
    [][ \A sid \in DOMAIN sessions :
          sessions[sid].completedAt
          => /\ sessions'[sid].completedAt = sessions[sid].completedAt
             /\ sessions'[sid].analysis = sessions[sid].analysis ]_vars

\* C20: the step of start that calls createSession adds one session under an
\* id no stored session has: medium difficulty, three video questions,
\* question index 0, no questions, not completed; getSession finds it at once
\* and every session stored before is as it was.
C20_CreateSessionIsFresh ==
    [][ \A r \in Slots :
          (Began(r) /\ reqs'[r].op = "start")
          => LET id == reqs'[r].sid
             IN  /\ id \notin DOMAIN sessions
                 /\ DOMAIN sessions' = DOMAIN sessions \cup {id}
                 /\ getSession(sessions', id) = Some(sessions'[id])
                 /\ sessions'[id].id = id
                 /\ sessions'[id].currentDifficulty = "medium"
                 /\ sessions'[id].totalVideoQuestions = 3
                 /\ sessions'[id].currentQuestionIndex = 0
                 /\ sessions'[id].questions = <<>>
                 /\ sessions'[id].completedAt = FALSE
                 /\ sessions'[id].analysis = None
                 /\ \A old \in DOMAIN sessions : sessions'[old] = sessions[old]
      ]_vars

\* a second session was created, with no question yet, beside a session that
\* already holds a question
C20_Witness ==
    \E a, b \in DOMAIN sessions :
        /\ a # b
        /\ Len(sessions[a].questions) > 0
        /\ sessions[b].questions = <<>>
        /\ \E r \in Slots : reqs[r].op = "start" /\ reqs[r].sid = b
                            /\ reqs[r].pc = "awaitInterviewer"

---------------------------------------------------------------------------
\* C21: the session stored under key k has id k, whatever store operations
\* ran, updateSession with a payload that names another id included.
C21_IdIsKey ==
    \A k \in DOMAIN sessions : sessions[k].id = k

\* a payload naming another id and another role was merged: the role is the
\* payload's, the id is still the key
C21_Witness ==
    \E k \in DOMAIN sessions :
        /\ sessions[k].role = PayloadRole
        /\ sessions[k].id = k
        /\ UnknownSession # k

\* C22: no store operation changes the role or the company of a session.
C22_RoleAndCompanyFixed ==
    [][ \A sid \in DOMAIN sessions :
          /\ sessions'[sid].role = sessions[sid].role
          /\ sessions'[sid].company = sessions[sid].company ]_vars

\* C23: in every step of the store a session's question sequence keeps its
\* records where they are, with their id, type and text, and at most grows.
C23_QuestionsAppendOnly ==
    [][ \A sid \in DOMAIN sessions :
          /\ Len(sessions'[sid].questions) >= Len(sessions[sid].questions)
          /\ \A i \in 1..Len(sessions[sid].questions) :
                /\ sessions'[sid].questions[i].id = sessions[sid].questions[i].id
                /\ sessions'[sid].questions[i].type = sessions[sid].questions[i].type
                /\ sessions'[sid].questions[i].text = sessions[sid].questions[i].text
      ]_vars

\* C24: after every store operation currentQuestionIndex is the number of
\* questions of the session, and it is not below its value before.
C24_IndexIsQuestionCount ==
    [][ \A sid \in DOMAIN sessions' :
          /\ sessions'[sid].currentQuestionIndex = Len(sessions'[sid].questions)
          /\ sid \in DOMAIN sessions
               => sessions'[sid].currentQuestionIndex >= sessions[sid].currentQuestionIndex
      ]_vars

\* the number of questions of type code in a question sequence
CodeQuestions(qs) == Len(SelectSeq(qs, LAMBDA q : q.type = "code"))

\* C25: a session never holds more than totalVideoQuestions + 1 questions nor
\* more than one question of type code, and the currentQuestion a
\* submit_answer returns is at most its totalQuestions.
C25_AtMostOneCodeQuestion ==
    /\ \A sid \in DOMAIN sessions :
          /\ Len(sessions[sid].questions) <= sessions[sid].totalVideoQuestions + 1
          /\ CodeQuestions(sessions[sid].questions) <= 1
    /\ \A r \in Slots :
          (reqs[r].op = "answer" /\ reqs[r].pc = "done" /\ reqs[r].resp.status = 200)
          => reqs[r].resp.currentQuestion <= reqs[r].resp.totalQuestions

\* C26: the question a start or a submit_answer appends has type code exactly
\* when it is appended by a submit_answer whose completed-video count has
\* reached totalVideoQuestions, and type video otherwise, whatever type the
\* interviewer's reply declares.
C26_CodeQuestionOnlyAfterVideos ==
    [][ \A r \in Slots :
          (/\ Acted(r) /\ reqs'[r].op \in {"start", "answer"}
           /\ reqs'[r].pc = "done" /\ reqs'[r].resp.status = 200)
          => LET session  == sessions'[reqs'[r].sid]
                 appended == session.questions[Len(session.questions)]
             IN  /\ Len(session.questions) = Len(sessions[reqs'[r].sid].questions) + 1
                 /\ appended.type =
                      IF /\ reqs'[r].op = "answer"
                         /\ reqs[r].completedQuestions >= session.totalVideoQuestions
                      THEN "code" ELSE "video"
      ]_vars

\* a stored question counts as completed: answered with a non-empty text, or skipped
Counted(q) == (IsSome(q.answer) /\ Truthy(Get(q.answer))) \/ q.skipped = Some(TRUE)

\* C27: the first step of a submit_answer on a video question that is neither
\* answered nor skipped yet raises the session's completed-video count by one,
\* for every transcript, the empty one with skipped = false included; and the
\* count a submit_answer decides with is the session's count at that moment.
C27_AnswerRaisesCompletedCount ==
    [][ \A r \in Slots :
          (Acted(r) /\ reqs'[r].op = "answer" /\ reqs'[r].resp.status \notin {400, 404})
          => LET sid == reqs'[r].sid
                 qs  == sessions[sid].questions
                 old == qs[FindFrom(qs, reqs'[r].qid, 1)]
             IN  /\ (Began(r) /\ old.type = "video" /\ ~Counted(old))
                      => CompletedQuestions(sessions'[sid].questions)
                            = CompletedQuestions(qs) + 1
                 /\ (reqs[r].pc # "awaitNext" /\ reqs'[r].pc = "awaitNext")
                      => reqs'[r].completedQuestions
                            = CompletedQuestions(sessions'[sid].questions)
      ]_vars

\* C28: a stored question has an evaluation only if its type is video and a
\* codeReview only if its type is code.
C28_ResultMatchesQuestionType ==
    \A sid \in DOMAIN sessions :
        \A i \in 1..Len(sessions[sid].questions) :
            LET q == sessions[sid].questions[i]
            IN  /\ IsSome(q.evaluation) => q.type = "video"
                /\ IsSome(q.codeReview) => q.type = "code"

---------------------------------------------------------------------------
\* The fallback analysis of POST /complete as a function of the recorded
\* scores: a session holding evaluated video questions and possibly a reviewed
\* code question is completed while the analyst's reply is unparsable.

MaxEvaluated == 2

\* scores around the rounding and the recommendation thresholds
ScoreSamples == {0, 49, 50, 64, 65, 74, 75, 79, 80, 100}

EvaluatedVideo(id, score) ==
    [ QuestionRecord(id, NewQuestion("video", "agent question", "medium"))
        EXCEPT !.answer = Some(Transcript), !.skipped = Some(FALSE),
               !.evaluation = Some([score |-> score, nextDifficulty |-> "medium",
                                    strengths |-> <<"clear">>, weaknesses |-> <<"shallow">>,
                                    brief |-> "agent evaluation"]) ]

ReviewedCode(id, score) ==
    [ QuestionRecord(id, NewQuestion("code", "agent question", "medium"))
        EXCEPT !.answer = Some(RealCode), !.skipped = Some(FALSE),
               !.codeReview = Some([FallbackCodeReview EXCEPT !.score = score]) ]

\* a video question as the skipped branch of POST /answer leaves it:
\* recordAnswer(sessionId, questionId, '', true) and no recordEvaluation
SkippedVideo(id) ==
    [ QuestionRecord(id, NewQuestion("video", "agent question", "medium"))
        EXCEPT !.answer = Some(<<>>), !.skipped = Some(TRUE) ]

\* the questions of a session after the video questions `scores` (Some(score)
\* for an evaluated answer, None for a skipped question) and an optional review
ScoredQuestions(scores, review) ==
    [i \in 1..Len(scores) |->
        IF IsSome(scores[i]) THEN EvaluatedVideo(i, Get(scores[i])) ELSE SkippedVideo(i)]
    \o (IF IsSome(review) THEN <<ReviewedCode(Len(scores) + 1, Get(review))>> ELSE <<>>)

ScoredSession(scores, review) ==
    [ NewSession(1, DefaultRole, DefaultCompany)
        EXCEPT !.questions = ScoredQuestions(scores, review),
               !.currentQuestionIndex = Len(ScoredQuestions(scores, review)) ]

InitAnalysis ==
    /\ \E scores \in UNION { [1..n -> {None} \cup { Some(s) : s \in ScoreSamples }]
                              : n \in 0..MaxEvaluated },
          review \in {None} \cup { Some(s) : s \in ScoreSamples } :
          sessions = (1 :> ScoredSession(scores, review))
    /\ reqs = [r \in Slots |-> IdleReq]
    /\ agentOk = {}
    /\ nreq = 0
    /\ raw = <<>>
    /\ result = None

\* POST /complete with an unparsable analyst reply, from arrival to response
AnalysisFallback(sid, durationMs) ==
    /\ ~sessions[sid].completedAt
    /\ sessions' = completeSession(sessions, sid,
                      EnsureTotalTime(FallbackAnalysis(sessions[sid], TotalTime(durationMs)),
                                      TotalTime(durationMs)))
    /\ StoreFrame

NextAnalysis == \E sid \in DOMAIN sessions, d \in Durations : AnalysisFallback(sid, d)

SpecAnalysis == InitAnalysis /\ [][NextAnalysis]_vars

\* round((m + c) / 2) for the exact mean m = sum / n of the evaluation scores
\* (0 if there is none) and the code-review score c
ExactOverallScore(qs) ==
    LET scores == EvaluatedScores(qs)
        n      == Len(scores)
        c      == CodeScore(qs)
    IN  IF n = 0 THEN Round(c, 2) ELSE Round(SumSeq(scores) + c * n, 2 * n)

\* C29: the overallScore of a fallback analysis is round((m + c) / 2) with m
\* the unrounded mean of the recorded evaluation scores and c the code-review
\* score.
C29_OverallScoreFromExactMean ==
    \A sid \in DOMAIN sessions :
        IsSome(sessions[sid].analysis)
        => Get(sessions[sid].analysis).overallScore
              = ExactOverallScore(sessions[sid].questions)

\* C30: the recommendation of a fallback analysis is the threshold class of
\* the overallScore of that analysis.
C30_RecommendationFromOverallScore ==
    \A sid \in DOMAIN sessions :
        IsSome(sessions[sid].analysis)
        => LET overallScore == Get(sessions[sid].analysis).overallScore
           IN  Get(sessions[sid].analysis).recommendation =
                 IF overallScore >= 80 THEN "Strong Hire"
                 ELSE IF overallScore >= 65 THEN "Hire"
                 ELSE IF overallScore >= 50 THEN "Maybe"
                 ELSE "No Hire"

\* the scores of the answered or skipped video questions, a skipped question
\* counting as 0
RECURSIVE CompletedVideoScores(_)
CompletedVideoScores(qs) ==
    IF qs = <<>> THEN <<>>
    ELSE (IF Head(qs).type = "video" /\ Counted(Head(qs))
          THEN <<IF Head(qs).skipped = Some(TRUE) \/ ~IsSome(Head(qs).evaluation)
                 THEN 0 ELSE Get(Head(qs).evaluation).score>>
          ELSE <<>>)
         \o CompletedVideoScores(Tail(qs))

\* C31: the mean video-question score of a fallback analysis is taken over
\* every answered or skipped video question, a skipped question counting as a
\* score of 0.
C31_SkippedCountsAsZero ==
    \A sid \in DOMAIN sessions :
        IsSome(sessions[sid].analysis)
        => LET scores == CompletedVideoScores(sessions[sid].questions)
           IN  Get(sessions[sid].analysis).skillScores.reactFundamentals
                 = IF Len(scores) > 0 THEN Round(SumSeq(scores), Len(scores)) ELSE 0

\* C32: every recorded evaluation score and code-review score, and the
\* overallScore of every fallback analysis, lies in 0..100.
C32_ScoresWithinRange ==
    \A sid \in DOMAIN sessions :
        /\ \A i \in 1..Len(sessions[sid].questions) :
              LET q == sessions[sid].questions[i]
              IN  /\ IsSome(q.evaluation) => Get(q.evaluation).score \in 0..100
                  /\ IsSome(q.codeReview) => Get(q.codeReview).score \in 0..100
        /\ (IsSome(sessions[sid].analysis)
              /\ Get(sessions[sid].analysis).summary = "fallback analysis")
           => Get(sessions[sid].analysis).overallScore \in 0..100

\* the most agent calls one request of operation op may issue
CallLimit(q) ==
    IF q.op = "answer" THEN (IF q.skipped THEN 1 ELSE 2) ELSE 1

\* C33: no agent call is retried: a request issues at most one call per step
\* of its handler (start 1, submit_answer 2 or 1 when skipped, submit_code 1,
\* complete 1), a served submit_answer has issued exactly that many, and the
\* step that receives a failed attempt moves on with the local fallback
\* instead of calling again or giving up.
C33_NoRetryStraightToFallback ==
    [][ \A r \in Slots :
          Acted(r)
          => /\ reqs'[r].ncalls <= CallLimit(reqs'[r])
             /\ (reqs'[r].op = "answer" /\ reqs'[r].resp.status = 200)
                => reqs'[r].ncalls = CallLimit(reqs'[r])
             /\ InFlight(reqs[r])
                => /\ reqs'[r].pc # reqs[r].pc
                   /\ reqs'[r].ncalls <= reqs[r].ncalls + 1
                   /\ reqs'[r].resp.status # 500 ]_vars

\* C34: the step of a non-skipped submit_answer that receives a failed
\* evaluator call (no agent evaluation is obtained) records the zero-score
\* "unavailable" evaluation on the question, leaves currentDifficulty as it
\* was, and goes on to fetch the next question.
C34_FailedEvaluatorFallsBack ==
    [][ \A r \in Slots :
          (Acted(r) /\ reqs[r].pc = "awaitEval" /\ reqs'[r].evalFrom # "agent")
          => LET sid == reqs[r].sid
                 i   == FindQuestion(sessions'[sid].questions, reqs[r].qid)
             IN  /\ IsSome(sessions'[sid].questions[i].evaluation)
                 /\ Get(sessions'[sid].questions[i].evaluation).score = 0
                 /\ Get(sessions'[sid].questions[i].evaluation).weaknesses
                       = <<"AI evaluation unavailable">>
                 /\ sessions'[sid].currentDifficulty = sessions[sid].currentDifficulty
                 /\ reqs'[r].pc = "awaitNext" ]_vars

---------------------------------------------------------------------------
\* parseAgentJSON as a function of the text an agent returned.  A text is a
\* sequence of characters; a run of three backticks is one element (Fence).
\* The texts of the model are written with the characters of TextAlphabet,
\* so the only JSON values they can spell are {}, [] and arrays of those.

MaxTextLen == 5

Fence == "fence"

TextAlphabet == {"{", "}", "[", "]", "x", " ", Fence}

startsWith(s, c) == s # <<>> /\ Head(s) = c

\* cleaned.replace(<opening fence, optional 'json', whitespace>, '') on a text
\* that starts with a fence
StripOpeningFence(s) == TrimStart(Tail(s))

\* cleaned.replace(<whitespace, closing fence at the end of the text>, '')
StripClosingFence(s) ==
    IF s # <<>> /\ s[Len(s)] = Fence THEN TrimEnd(SubSeq(s, 1, Len(s) - 1)) ELSE s

\* raw.trim() with the markdown code block removed
Defenced(text) ==
    LET cleaned == Trim(text)
    IN  IF startsWith(cleaned, Fence)
        THEN StripClosingFence(StripOpeningFence(cleaned))
        ELSE cleaned

RECURSIVE IndexFrom(_, _, _)
IndexFrom(s, c, i) ==
    IF i > Len(s) THEN 0 ELSE IF s[i] = c THEN i ELSE IndexFrom(s, c, i + 1)

RECURSIVE LastIndexFrom(_, _, _)
LastIndexFrom(s, c, i) ==
    IF i < 1 THEN 0 ELSE IF s[i] = c THEN i ELSE LastIndexFrom(s, c, i - 1)

\* cleaned.match(/\{[\s\S]*\}/): the leftmost '{' and, the star being greedy,
\* everything up to the last '}' behind it
jsonMatch(cleaned) ==
    LET first == IndexFrom(cleaned, "{", 1)
        last  == LastIndexFrom(cleaned, "}", Len(cleaned))
    IN  IF first # 0 /\ last > first THEN Some(SubSeq(cleaned, first, last)) ELSE None

\* the text handed to JSON.parse
Candidate(text) ==
    LET cleaned == Defenced(text)
    IN  IF ~startsWith(cleaned, "{") /\ ~startsWith(cleaned, "[") /\ IsSome(jsonMatch(cleaned))
        THEN Get(jsonMatch(cleaned))
        ELSE cleaned

\* a JSON value spelt without whitespace
RECURSIVE IsJSONValue(_)
IsJSONValue(tokens) ==
    \/ tokens = <<"{", "}">>
    \/ tokens = <<"[", "]">>
    \/ /\ Len(tokens) > 2
       /\ Head(tokens) = "[" /\ tokens[Len(tokens)] = "]"
       /\ IsJSONValue(SubSeq(tokens, 2, Len(tokens) - 1))

JSONTokens(text) == SelectSeq(text, LAMBDA c : c \notin Whitespace)

\* JSON.parse accepts exactly one value with whitespace around its tokens
JSONParses(text) == IsJSONValue(JSONTokens(text))

\* the value returned (threw = FALSE) or the Error thrown (threw = TRUE)
parseAgentJSON(text) ==
    LET cleaned == Candidate(text)
    IN  IF JSONParses(cleaned)
        THEN [threw |-> FALSE, cleaned |-> cleaned, value |-> JSONTokens(cleaned)]
        ELSE [threw |-> TRUE, cleaned |-> cleaned, value |-> <<>>]

InitParse ==
    /\ raw \in UNION { [1..n -> TextAlphabet] : n \in 0..MaxTextLen }
    /\ result = None
    /\ sessions = << >>
    /\ reqs = [r \in Slots |-> IdleReq]
    /\ agentOk = {}
    /\ nreq = 0

ParseReply ==
    /\ result = None
    /\ result' = Some(parseAgentJSON(raw))
    /\ UNCHANGED <<sessions, reqs, agentOk, nreq, raw>>

NextParse == ParseReply

SpecParse == InitParse /\ [][NextParse]_vars

\* the end of a brace-balanced span scanned from position i with `depth`
\* braces open: the first position at which all of them are closed, 0 if none
RECURSIVE BalancedEnd(_, _, _)
BalancedEnd(s, i, depth) ==
    IF i > Len(s) THEN 0
    ELSE IF s[i] = "{" THEN BalancedEnd(s, i + 1, depth + 1)
    ELSE IF s[i] = "}" THEN (IF depth = 1 THEN i ELSE BalancedEnd(s, i + 1, depth - 1))
    ELSE BalancedEnd(s, i + 1, depth)

\* the first brace-balanced {...} substring of s, if its first '{' is closed
FirstBalanced(s) ==
    LET first == IndexFrom(s, "{", 1)
        last  == IF first = 0 THEN 0 ELSE BalancedEnd(s, first + 1, 1)
    IN  IF last # 0 THEN Some(SubSeq(s, first, last)) ELSE None

\* C35: when the trimmed, de-fenced text starts with neither '{' nor '[' and
\* holds a brace-balanced {...} substring, the text handed to the strict parser
\* is the first such substring; if that substring is valid JSON the call
\* returns its value.
C35_CandidateIsFirstBalancedObject ==
    IsSome(result)
    => LET cleaned == Defenced(raw)
           first   == FirstBalanced(cleaned)
       IN  (~startsWith(cleaned, "{") /\ ~startsWith(cleaned, "[") /\ IsSome(first))
           => /\ Get(result).cleaned = Get(first)
              /\ JSONParses(Get(first))
                 => /\ ~Get(result).threw
                    /\ Get(result).value = JSONTokens(Get(first))

\* C36: a session is marked completed only when its coding question exists and
\* has a recorded code review, and a submit_code is accepted (passes validation
\* and records the code) only for a coding question, after totalVideoQuestions
\* video questions are answered or skipped.
C36_PhaseOrder ==
    [][ /\ \A sid \in DOMAIN sessions' :
              sessions'[sid].completedAt
              => \E i \in 1..Len(sessions'[sid].questions) :
                     /\ sessions'[sid].questions[i].type = "code"
                     /\ IsSome(sessions'[sid].questions[i].codeReview)
        /\ \A r \in Slots :
              (Began(r) /\ reqs'[r].op = "code" /\ reqs'[r].pc = "awaitReview")
              => LET session == sessions[reqs'[r].sid]
                     i       == FindQuestion(session.questions, reqs'[r].qid)
                 IN  /\ session.questions[i].type = "code"
                     /\ CompletedQuestions(session.questions) >= session.totalVideoQuestions
      ]_vars

\* C37: a submit_answer, submit_code or complete request that arrives when the
\* session's completedAt is set appends no question to the session, changes
\* no recorded answer, skipped flag, evaluation or code review of it, and
\* leaves its currentDifficulty alone (checked on the request's first step).
C37_CompletedIsTerminal ==
    [][ \A r \in Slots :
          (Began(r) /\ reqs'[r].op \in {"answer", "code", "complete"}
             /\ reqs'[r].sid \in DOMAIN sessions
             /\ sessions[reqs'[r].sid].completedAt)
          => LET sid == reqs'[r].sid
             IN  /\ sessions'[sid].questions = sessions[sid].questions
                 /\ sessions'[sid].currentDifficulty = sessions[sid].currentDifficulty ]_vars

---------------------------------------------------------------------------
\* Progress.  A handler's continuation runs once the promise it awaits
\* settles (Node's event loop), so the reply steps of calls to an agent that
\* answers are taken eventually.  sendToAgent sets no timeout and no abort
\* signal on its fetch, so nothing in the server ends a call to an agent that
\* stays silent: SilentAgent is such an agent and the fairness below does not
\* cover the replies to its calls.

Agents == {"interviewer", "evaluator", "codeReviewer", "analyst"}

SilentAgent == "evaluator"

\* the continuation of the request in slot r runs on the reply to its call
ReplyStep(r) ==
    \/ \E o \in Outcomes(InterviewerPayloads) : StartReply(r, o)
    \/ \E o \in Outcomes(EvaluatorPayloads) : AnswerEvalReply(r, o)
    \/ \E o \in Outcomes(InterviewerPayloads), t \in FallbackVideoTexts :
          AnswerNextReply(r, o, t)
    \/ \E o \in Outcomes(CodeReviewPayloads) : CodeReply(r, o)
    \/ \E o \in Outcomes(AnalysisPayloads) : CompleteReply(r, o)

\* a request that waits on `agent` receives the reply and goes on
ReplyFrom(agent) ==
    \E r \in Slots :
        /\ IsSome(reqs[r].call) /\ Get(reqs[r].call).agent = agent
        /\ ReplyStep(r)

Fairness == \A agent \in Agents \ {SilentAgent} : WF_vars(ReplyFrom(agent))

SpecLive == Init /\ [][Next]_vars /\ Fairness

\* C38: every request that is waiting on an agent call eventually returns a
\* response, the calls to an agent that never replies included.
C38_EveryRequestReturns ==
    \A r \in Slots : InFlight(reqs[r]) ~> ~InFlight(reqs[r])

\* C39: when a request on an existing session has ended in an error response
\* (status 400 and above), the session is as the request found it on arrival:
\* same questions with the same answer, skipped, evaluation and codeReview
\* fields, same currentDifficulty.
C39_ErrorLeavesSessionUnchanged ==
    \A r \in Slots :
        (reqs[r].pc = "done" /\ reqs[r].resp.status >= 400 /\ IsSome(reqs[r].before))
        => /\ sessions[reqs[r].sid].questions = Get(reqs[r].before).questions
           /\ sessions[reqs[r].sid].currentDifficulty
                 = Get(reqs[r].before).currentDifficulty

\* C40: a step of a request addressed to one session leaves every other
\* session of the store in place with every field unchanged, and so does
\* updateSession applied to any session of the store with any payload.
C40_SessionsIndependent ==
    [][ /\ \A r \in Slots :
              Acted(r)
              => \A other \in DOMAIN sessions \ {reqs'[r].sid} :
                     /\ other \in DOMAIN sessions'
                     /\ sessions'[other] = sessions[other]
        /\ \A sid \in DOMAIN sessions', u \in Updates :
              LET updated == updateSession(sessions', sid, u)
              IN  /\ DOMAIN updated = DOMAIN sessions'
                  /\ \A other \in DOMAIN sessions' \ {sid} :
                         updated[other] = sessions'[other]
      ]_vars

\* a request on one session has recorded an answer while another session
\* with a question of the same id is in the store
C40_Witness ==
    \E r \in Slots :
        /\ reqs[r].op = "answer" /\ reqs[r].pc \in {"awaitEval", "awaitNext"}
        /\ \E other \in DOMAIN sessions \ {reqs[r].sid} :
               /\ FindQuestion(sessions[other].questions, reqs[r].qid) # 0
               /\ sessions[other].questions[
                      FindQuestion(sessions[other].questions, reqs[r].qid)].answer = None

===========================================================================
